---- MODULE Spec2Model ----
(***************************************************************************)
(* Model of the supplier-risk dashboard (src/app.py) and of its            *)
(* connectivity script (src/test_connection.py).                           *)
(*                                                                         *)
(* The dashboard process serves several browser sessions; each session     *)
(* runs main() as one render pass.  All sessions share the connection      *)
(* memoised by @st.cache_resource and the four row-sets memoised by        *)
(* @st.cache_data(ttl=300).  A memoised call reads the stored entry; on a  *)
(* miss it takes the entry's compute lock, reads again, and only then      *)
(* calls the decorated function and stores what it returned.  An exception *)
(* raised by the decorated function stores nothing.                        *)
(*                                                                         *)
(* A row-set is represented by its number of rows.                         *)
(***************************************************************************)
EXTENDS Integers, Sequences, FiniteSets, TLC

VARIABLES
    now,        \* monotonic clock of the dashboard process, in seconds
    upstream,   \* number of qualifying rows the warehouse views hold
    conn,       \* handle stored by @st.cache_resource (NoConn: nothing stored)
    connLock,   \* holder of the compute lock of get_snowflake_connection
    connOks,    \* number of handshakes that returned a handle
    connTried,  \* snowflake.connector.connect has been invoked in this process
    cache,      \* accessor -> entry stored by @st.cache_data
    lock,       \* accessor -> holder of the accessor's compute lock
    pc,         \* session -> position of its render pass
    idx,        \* session -> index in FetchOrder of the accessor being called
    seenStale,  \* session -> store time of the entry, older than TTL, that its
                \* accessor call in progress found when it began
    handle,     \* session -> handle get_snowflake_connection returned to it
    tries,      \* session -> query executions begun by its latest accessor call
    connTries,  \* session -> handshakes begun in this pass
    ret,        \* session -> the return of its latest accessor call, until it
                \* begins the next one: accessor, rows, time, how the rows
                \* were obtained ("hit", "wait", "exec"), and whether the call
                \* began on an entry older than TTL
    alerts,     \* session -> the alerts snapshot main() holds
    failedOp,   \* session -> operation that raised in this pass
    page,       \* session -> elements shown in the browser, in order
    spc,        \* position of the connectivity script
    sruns,      \* number of runs of the script so far
    sconn,      \* the script's connection: "none", "open" or "closed"
    scursor,    \* the script's cursor: "none", "open" or "closed"
    sout,       \* lines printed by the script
    squeries    \* queries issued by the script

dashVars == <<conn, connLock, connOks, connTried, cache, lock, pc, idx,
              seenStale, handle, tries, connTries, ret, alerts, failedOp, page>>

scriptVars == <<spc, sruns, sconn, scursor, sout, squeries>>

vars == <<now, upstream, dashVars, scriptVars>>

----------------------------------------------------------------------------
(* Program constants *)

TTL == 300

AlertLimit == 10

(* Bounds of the model *)

MaxTime == 400

MaxRuns == 2

Steps == {200}

UpstreamCounts == {2, 12}

Sessions == {"s1", "s2"}

----------------------------------------------------------------------------
(* Fixed vocabulary *)

Accessors == {"risk", "alerts", "trend", "category"}

FetchOrder == <<"risk", "alerts", "trend", "category">>

Free == "free"

NoConn == 0

NoOp == "none"

NoTime == -1

NoRows == -1

NoEntry == [rows |-> NoRows, ts |-> NoTime]

NoRet == [acc |-> NoOp, rows |-> NoRows, t |-> NoTime, how |-> NoOp, stale |-> FALSE]

Min(x, y) == IF x <= y THEN x ELSE y

----------------------------------------------------------------------------
(* The warehouse: an external collaborator whose views gain rows over time *)

\* The row-set a query returns when it runs now.  V_RECENT_ALERTS is read
\* with LIMIT 10; the other three queries return every row of their view.
RunQueryNoLimit(a) == upstream

RunQuery(a) == IF a = "alerts" THEN Min(upstream, AlertLimit) ELSE upstream

WarehouseChange(k) ==
    /\ k > upstream
    /\ upstream' = k
    /\ UNCHANGED <<now, dashVars, scriptVars>>

Tick(d) ==
    /\ now + d <= MaxTime
    /\ now' = now + d
    /\ UNCHANGED <<upstream, dashVars, scriptVars>>

----------------------------------------------------------------------------
(* @st.cache_data(ttl=300): the four accessors *)

\* The accessor a session is calling
Cur(s) == FetchOrder[idx[s]]

FreshInMinutes(a) == cache[a].ts # NoTime /\ now < cache[a].ts + TTL \div 60

FreshForever(a) == cache[a].ts # NoTime

\* An entry is served while it is younger than its time-to-live
Fresh(a) == cache[a].ts # NoTime /\ now < cache[a].ts + TTL

\* The entry was stored more than TTL ago
Stale(a) == cache[a].ts # NoTime /\ now > cache[a].ts + TTL

LockIgnored(a) == TRUE

\* Nobody holds the compute lock of the accessor's entry
LockFree(a) == lock[a] = Free

StoreTouchAll(a, r) ==
    [b \in Accessors |->
        IF b = a THEN [rows |-> r, ts |-> now]
        ELSE IF cache[b].ts = NoTime THEN cache[b]
        ELSE [cache[b] EXCEPT !.ts = now]]

\* The entries after the rows r of accessor a are stored, tagged with the
\* time of the store
Store(a, r) == [cache EXCEPT ![a] = [rows |-> r, ts |-> now]]

\* The call of Cur(s) hands rows r to main(), which goes on to its next
\* statement: the next accessor, or the widgets.
Return(s, r, how) ==
    /\ ret' = [ret EXCEPT ![s] = [acc |-> Cur(s), rows |-> r, t |-> now, how |-> how,
                                  stale |-> seenStale[s] # NoTime]]
    /\ alerts' = [alerts EXCEPT ![s] = IF Cur(s) = "alerts" THEN r ELSE @]
    /\ seenStale' = [seenStale EXCEPT ![s] = NoTime]
    /\ handle' = [handle EXCEPT ![s] = NoConn]
    /\ IF idx[s] < Len(FetchOrder)
       THEN /\ idx' = [idx EXCEPT ![s] = idx[s] + 1]
            /\ pc' = [pc EXCEPT ![s] = "call"]
       ELSE /\ idx' = idx
            /\ pc' = [pc EXCEPT ![s] = "render"]

ExceptNoHint(s, op, shown) ==
    /\ page' = [page EXCEPT ![s] = Append(shown, "error")]
    /\ failedOp' = [failedOp EXCEPT ![s] = op]
    /\ pc' = [pc EXCEPT ![s] = "done"]
    /\ alerts' = [alerts EXCEPT ![s] = NoRows]
    /\ seenStale' = [seenStale EXCEPT ![s] = NoTime]
    /\ handle' = [handle EXCEPT ![s] = NoConn]
    /\ ret' = [ret EXCEPT ![s] = NoRet]
    /\ idx' = idx

\* except Exception (lines 248-250): the banner and the hint follow whatever
\* the pass has shown so far, and main() ends.
Except(s, op, shown) ==
    /\ page' = [page EXCEPT ![s] = shown \o <<"error", "info">>]
    /\ failedOp' = [failedOp EXCEPT ![s] = op]
    /\ pc' = [pc EXCEPT ![s] = "done"]
    /\ alerts' = [alerts EXCEPT ![s] = NoRows]
    /\ seenStale' = [seenStale EXCEPT ![s] = NoTime]
    /\ handle' = [handle EXCEPT ![s] = NoConn]
    /\ ret' = [ret EXCEPT ![s] = NoRet]
    /\ idx' = idx

\* main() up to its first accessor call (lines 86-94)
StartRender(s) ==
    /\ pc[s] \in {"idle", "done"}
    /\ pc' = [pc EXCEPT ![s] = "call"]
    /\ idx' = [idx EXCEPT ![s] = 1]
    /\ page' = [page EXCEPT ![s] = <<"header">>]
    /\ alerts' = [alerts EXCEPT ![s] = NoRows]
    /\ ret' = [ret EXCEPT ![s] = NoRet]
    /\ tries' = [tries EXCEPT ![s] = 0]
    /\ connTries' = [connTries EXCEPT ![s] = 0]
    /\ failedOp' = [failedOp EXCEPT ![s] = NoOp]
    /\ UNCHANGED <<now, upstream, conn, connLock, connOks, connTried, cache,
                   lock, seenStale, handle, scriptVars>>

\* The memoised call reads the stored entry: a fresh one is returned at
\* once, otherwise the caller goes for the entry's compute lock.
CacheRead(s) ==
    /\ pc[s] = "call"
    /\ tries' = [tries EXCEPT ![s] = 0]
    /\ IF Fresh(Cur(s))
       THEN /\ Return(s, cache[Cur(s)].rows, "hit")
       ELSE /\ pc' = [pc EXCEPT ![s] = "lock"]
            /\ seenStale' = [seenStale EXCEPT ![s] =
                   IF Stale(Cur(s)) THEN cache[Cur(s)].ts ELSE NoTime]
            /\ ret' = [ret EXCEPT ![s] = NoRet]
            /\ UNCHANGED <<idx, alerts, handle>>
    /\ UNCHANGED <<now, upstream, conn, connLock, connOks, connTried, cache,
                   lock, connTries, failedOp, page, scriptVars>>

\* With the compute lock held the entry is read again: another caller may
\* have stored it in the meantime.  Only if it is still missing is the
\* decorated function called.
AcquireLock(s) ==
    /\ pc[s] = "lock"
    /\ LockFree(Cur(s))
    /\ IF Fresh(Cur(s))
       THEN /\ Return(s, cache[Cur(s)].rows, "wait")
            /\ lock' = lock
       ELSE /\ lock' = [lock EXCEPT ![Cur(s)] = s]
            /\ pc' = [pc EXCEPT ![s] = "func"]
            /\ UNCHANGED <<idx, ret, alerts, seenStale, handle>>
    /\ UNCHANGED <<now, upstream, conn, connLock, connOks, connTried, cache,
                   tries, connTries, failedOp, page, scriptVars>>

----------------------------------------------------------------------------
(* @st.cache_resource: get_snowflake_connection, called by the accessor *)

ConnNeverStored == FALSE

\* A handle is stored
ConnStored == conn # NoConn

\* The accessor's body starts: the memoised connection is read.  A stored
\* handle is returned; otherwise the caller goes for the compute lock.
GetConnection(s) ==
    /\ pc[s] = "func"
    /\ IF ConnStored
       THEN /\ handle' = [handle EXCEPT ![s] = conn]
            /\ pc' = [pc EXCEPT ![s] = "query"]
       ELSE /\ handle' = handle
            /\ pc' = [pc EXCEPT ![s] = "connlock"]
    /\ UNCHANGED <<now, upstream, conn, connLock, connOks, connTried, cache,
                   lock, idx, seenStale, tries, connTries, ret, alerts,
                   failedOp, page, scriptVars>>

\* With the lock held the stored handle is read again before connecting
ConnAcquire(s) ==
    /\ pc[s] = "connlock"
    /\ connLock = Free
    /\ IF ConnStored
       THEN /\ handle' = [handle EXCEPT ![s] = conn]
            /\ pc' = [pc EXCEPT ![s] = "query"]
            /\ connLock' = connLock
       ELSE /\ handle' = handle
            /\ pc' = [pc EXCEPT ![s] = "connect"]
            /\ connLock' = s
    /\ UNCHANGED <<now, upstream, conn, connOks, connTried, cache, lock, idx,
                   seenStale, tries, connTries, ret, alerts, failedOp,
                   page, scriptVars>>

\* The handshake returns a new handle, which is stored and returned
ConnectOk(s) ==
    /\ connOks' = connOks + 1
    /\ conn' = connOks + 1
    /\ handle' = [handle EXCEPT ![s] = connOks + 1]
    /\ connLock' = Free
    /\ pc' = [pc EXCEPT ![s] = "query"]
    /\ UNCHANGED <<lock, idx, seenStale, ret, alerts, failedOp, page>>

\* The handshake raises: nothing is stored, both locks are released on the
\* way out and the exception reaches the except clause of main().
ConnectFail(s) ==
    /\ connLock' = Free
    /\ lock' = [lock EXCEPT ![Cur(s)] = Free]
    /\ Except(s, "conn", page[s])
    /\ UNCHANGED <<conn, connOks>>

\* snowflake.connector.connect (lines 24-31)
Connect(s, ok) ==
    /\ pc[s] = "connect"
    /\ connTried' = TRUE
    /\ connTries' = [connTries EXCEPT ![s] = @ + 1]
    /\ IF ok THEN ConnectOk(s) ELSE ConnectFail(s)
    /\ UNCHANGED <<now, upstream, cache, tries, scriptVars>>

----------------------------------------------------------------------------
(* pd.read_sql and the store of what the accessor returned *)

\* The query returned: the row-set is stored with the time of completion,
\* the compute lock is released and the rows go to main().
QueryOk(s) ==
    /\ cache' = Store(Cur(s), RunQuery(Cur(s)))
    /\ lock' = [lock EXCEPT ![Cur(s)] = Free]
    /\ Return(s, RunQuery(Cur(s)), "exec")
    /\ UNCHANGED <<failedOp, page>>

QueryFailRetry(s) ==
    UNCHANGED <<cache, lock, pc, idx, seenStale, handle, ret, alerts, failedOp,
                page>>

QueryFailStores(s) ==
    /\ cache' = Store(Cur(s), 0)
    /\ lock' = [lock EXCEPT ![Cur(s)] = Free]
    /\ Except(s, Cur(s), page[s])

\* The query raises: nothing is stored, the lock is released and the
\* exception reaches the except clause of main().
QueryFail(s) ==
    /\ lock' = [lock EXCEPT ![Cur(s)] = Free]
    /\ Except(s, Cur(s), page[s])
    /\ UNCHANGED cache

Query(s, ok) ==
    /\ pc[s] = "query"
    /\ tries' = [tries EXCEPT ![s] = @ + 1]
    /\ IF ok THEN QueryOk(s) ELSE QueryFail(s)
    /\ UNCHANGED <<now, upstream, conn, connLock, connOks, connTried,
                   connTries, scriptVars>>

----------------------------------------------------------------------------
(* The widgets of main(), lines 99-246 *)

Widgets == <<"metrics", "table", "pie", "trend", "bar_avg", "bar_neg">>

RECURSIVE Expanders(_)
Expanders(k) == IF k <= 0 THEN <<>> ELSE Append(Expanders(k - 1), "expander")

\* Everything a pass shows after the header when nothing raises: the
\* widgets, one expander per row of the alerts snapshot, the footer.
FullPage(rows) == Widgets \o Expanders(rows) \o <<"footer">>

Count(seq, e) == Cardinality({i \in 1..Len(seq) : seq[i] = e})

\* The numbers of elements a pass can have shown when a statement raises:
\* any widget may raise, the footer may, and of the rows of the alert list
\* the first and the last.
FailPoints(rows) ==
    (0 .. Len(Widgets) - 1)
    \cup (IF rows > 0 THEN {Len(Widgets), Len(Widgets) + rows - 1} ELSE {})
    \cup {Len(Widgets) + rows}

\* The pass in which no statement raises: the page is complete and main()
\* returns.
RenderAll(s) ==
    /\ page' = [page EXCEPT ![s] = @ \o FullPage(alerts[s])]
    /\ pc' = [pc EXCEPT ![s] = "done"]
    /\ alerts' = [alerts EXCEPT ![s] = NoRows]
    /\ ret' = [ret EXCEPT ![s] = NoRet]
    /\ tries' = [tries EXCEPT ![s] = 0]
    /\ connTries' = [connTries EXCEPT ![s] = 0]
    /\ UNCHANGED <<failedOp, idx, seenStale, handle>>

\* f elements are shown before a statement raises; f = Len(FullPage) is the
\* pass in which none does.
Render(s, f) ==
    /\ pc[s] = "render"
    /\ f \in FailPoints(alerts[s]) \cup {Len(FullPage(alerts[s]))}
    /\ IF f = Len(FullPage(alerts[s]))
       THEN RenderAll(s)
       ELSE /\ Except(s, "render", page[s] \o SubSeq(FullPage(alerts[s]), 1, f))
            /\ UNCHANGED <<tries, connTries>>
    /\ UNCHANGED <<now, upstream, conn, connLock, connOks, connTried, cache,
                   lock, scriptVars>>

----------------------------------------------------------------------------
(* src/test_connection.py *)

\* The script is run again
ScriptStart ==
    /\ spc \in {"exited", "crashed"}
    /\ sruns < MaxRuns
    /\ sruns' = sruns + 1
    /\ spc' = "start"
    /\ sconn' = "none"
    /\ scursor' = "none"
    /\ sout' = <<>>
    /\ squeries' = 0
    /\ UNCHANGED <<now, upstream, dashVars>>

\* lines 9-18: connect and report it.  An exception ends the script.
ScriptConnect(ok) ==
    /\ spc = "start"
    /\ IF ok
       THEN /\ sconn' = "open"
            /\ sout' = Append(sout, <<"connected", 0>>)
            /\ spc' = "connected"
       ELSE /\ spc' = "crashed"
            /\ UNCHANGED <<sconn, sout>>
    /\ UNCHANGED <<scursor, squeries, sruns, now, upstream, dashVars>>

\* lines 21-22: open a cursor and execute the row count.  An exception ends
\* the script where it is.
ScriptExecute(ok) ==
    /\ spc = "connected"
    /\ scursor' = "open"
    /\ squeries' = squeries + 1
    /\ spc' = IF ok THEN "executed" ELSE "crashed"
    /\ UNCHANGED <<sconn, sout, sruns, now, upstream, dashVars>>

\* lines 23-24: fetch the count and print it
ScriptReport ==
    /\ spc = "executed"
    /\ sout' = Append(sout, <<"count", upstream>>)
    /\ spc' = "reported"
    /\ UNCHANGED <<sconn, scursor, squeries, sruns, now, upstream, dashVars>>

\* line 26
ScriptCloseCursor ==
    /\ spc = "reported"
    /\ scursor' = "closed"
    /\ spc' = "closing"
    /\ UNCHANGED <<sconn, sout, squeries, sruns, now, upstream, dashVars>>

\* line 27
ScriptCloseConn ==
    /\ spc = "closing"
    /\ sconn' = "closed"
    /\ spc' = "exited"
    /\ UNCHANGED <<scursor, sout, squeries, sruns, now, upstream, dashVars>>

----------------------------------------------------------------------------
Init ==
    /\ now = 0
    /\ upstream \in UpstreamCounts
    /\ conn = NoConn
    /\ connLock = Free
    /\ connOks = 0
    /\ connTried = FALSE
    /\ cache = [a \in Accessors |-> NoEntry]
    /\ lock = [a \in Accessors |-> Free]
    /\ pc = [s \in Sessions |-> "idle"]
    /\ idx = [s \in Sessions |-> 1]
    /\ seenStale = [s \in Sessions |-> NoTime]
    /\ handle = [s \in Sessions |-> NoConn]
    /\ tries = [s \in Sessions |-> 0]
    /\ connTries = [s \in Sessions |-> 0]
    /\ ret = [s \in Sessions |-> NoRet]
    /\ alerts = [s \in Sessions |-> NoRows]
    /\ failedOp = [s \in Sessions |-> NoOp]
    /\ page = [s \in Sessions |-> <<>>]
    /\ spc = "start"
    /\ sruns = 1
    /\ sconn = "none"
    /\ scursor = "none"
    /\ sout = <<>>
    /\ squeries = 0

Environment ==
    \/ \E d \in Steps : Tick(d)
    \/ \E k \in UpstreamCounts : WarehouseChange(k)

Next ==
    \/ \E s \in Sessions : StartRender(s)
    \/ \E s \in Sessions : CacheRead(s)
    \/ \E s \in Sessions : AcquireLock(s)
    \/ \E s \in Sessions : GetConnection(s)
    \/ \E s \in Sessions : ConnAcquire(s)
    \/ \E s \in Sessions, ok \in BOOLEAN : Connect(s, ok)
    \/ \E s \in Sessions, ok \in BOOLEAN : Query(s, ok)
    \/ \E s \in Sessions, f \in 0..(Len(Widgets) + AlertLimit + 1) : Render(s, f)
    \/ Environment

Spec == Init /\ [][Next]_vars

NextScript ==
    \/ ScriptStart
    \/ \E ok \in BOOLEAN : ScriptConnect(ok)
    \/ \E ok \in BOOLEAN : ScriptExecute(ok)
    \/ ScriptReport
    \/ ScriptCloseCursor
    \/ ScriptCloseConn
    \/ Environment

SpecScript == Init /\ [][NextScript]_vars

----------------------------------------------------------------------------
(* Vocabulary of the properties *)

\* The stored entry of accessor a is less than TTL seconds old
WithinTTL(a) == cache[a].ts # NoTime /\ now - cache[a].ts < TTL

\* The stored entry of accessor a is more than TTL seconds old
OlderThanTTL(a) == cache[a].ts # NoTime /\ now - cache[a].ts > TTL

\* In this step an accessor call of session s returns rows to main()
Returns(s) == ret'[s] # NoRet /\ ret'[s] # ret[s]

\* In this step session s runs the query of the accessor it is calling
Executes(s) == tries'[s] > tries[s]

\* In this step session s invokes snowflake.connector.connect
Connects(s) == connTries'[s] > connTries[s]

\* Session s is inside the decorated function of the accessor it is calling
InBody(s) == pc[s] \in {"func", "connlock", "connect", "query"}

\* The latest return of session s happened while the entry that accessor
\* holds now was less than TTL seconds old
InWindow(s) ==
    /\ ret[s].acc # NoOp
    /\ cache[ret[s].acc].ts # NoTime
    /\ cache[ret[s].acc].ts <= ret[s].t
    /\ ret[s].t - cache[ret[s].acc].ts < TTL

\* What the warehouse holds now for accessor a
Upstream(a) == IF a = "alerts" THEN Min(upstream, AlertLimit) ELSE upstream

IsPrefix(p, q) == Len(p) <= Len(q) /\ \A i \in 1..Len(p) : p[i] = q[i]

Abs(x) == IF x < 0 THEN -x ELSE x

\* The banner and the hint are the last two elements of page p, once each
EndsWithBanner(p) ==
    /\ Len(p) >= 3
    /\ p[Len(p) - 1] = "error"
    /\ p[Len(p)] = "info"
    /\ Count(p, "error") = 1
    /\ Count(p, "info") = 1

----------------------------------------------------------------------------
(* C1 *)

\* C1, as stated: any two calls of the same accessor made within 300 seconds
\* of each other, by the same or by different sessions, return equal
\* row-sets, and at most one of the two ran the query.
C1_TwoCallsWithinTTLAgree ==
    \A s, t \in Sessions :
        (/\ s # t
         /\ ret[s].acc # NoOp
         /\ ret[s].acc = ret[t].acc
         /\ Abs(ret[s].t - ret[t].t) <= TTL)
        => /\ ret[s].rows = ret[t].rows
           /\ ~(ret[s].how = "exec" /\ ret[t].how = "exec")

\* C1, amended: the 300 seconds count from the refresh, not from the other
\* call.  Every call that returns less than 300 seconds after the refresh
\* that stored the accessor's entry returns the rows of that entry, so any
\* two such calls return equal row-sets; and no execution of the query
\* begins while the stored entry is less than 300 seconds old.
C1_SameRefreshSameRows ==
    /\ [](\A s \in Sessions : InWindow(s) => ret[s].rows = cache[ret[s].acc].rows)
    /\ [][\A s \in Sessions : Executes(s) => ~WithinTTL(Cur(s))]_vars

\* Two sessions were served the same entry at different times, the later
\* one from the store although the warehouse has changed since.
C1_Witness ==
    \E s, t \in Sessions :
        /\ InWindow(s) /\ InWindow(t)
        /\ ret[s].acc = ret[t].acc
        /\ ret[s].how = "exec" /\ ret[t].how = "hit"
        /\ ret[t].t > ret[s].t
        /\ Upstream(ret[t].acc) # ret[t].rows

----------------------------------------------------------------------------
(* C2 *)

\* C2: a call that begins more than 300 seconds after the accessor's last
\* refresh is never answered from the stored entry; when it returns, it
\* returns the rows of an entry stored after the one it found, produced by
\* exactly one new execution: its own, which stores what the warehouse holds
\* now, or the one of the concurrent caller it waited for.  When it raises
\* instead, it has run the query once and the stored entry is as it was.
C2_StaleCallGetsNewRows ==
    [][\A s \in Sessions :
        /\ (pc[s] = "call" /\ OlderThanTTL(Cur(s))) => ~Returns(s)
        /\ (Returns(s) /\ seenStale[s] # NoTime) =>
              /\ cache'[Cur(s)].ts > seenStale[s]
              /\ ret'[s].rows = cache'[Cur(s)].rows
              /\ \/ /\ ret'[s].how = "exec"
                    /\ tries'[s] = 1
                    /\ cache'[Cur(s)].ts = now
                    /\ ret'[s].rows = Upstream(Cur(s))
                 \/ /\ ret'[s].how = "wait"
                    /\ tries'[s] = 0
                    /\ cache' = cache
        /\ (seenStale[s] # NoTime /\ failedOp'[s] # failedOp[s]) =>
              /\ failedOp'[s] = Cur(s)
              /\ tries'[s] = 1
              /\ cache' = cache]_vars

\* A call that began on an entry older than 300 seconds has run the query
\* and returned rows that differ from the ones stored before.
C2_Witness ==
    \E s \in Sessions :
        /\ ret[s].stale
        /\ ret[s].how = "exec"
        /\ ret[s].t > TTL
        /\ \E t \in Sessions : ret[t].acc = ret[s].acc /\ ret[t].rows # ret[s].rows

----------------------------------------------------------------------------
(* C3 *)

----------------------------------------------------------------------------
(* C4 *)

\* C4, as stated: connect is invoked once per process, so it is never
\* invoked when it has been invoked before.
C4_ConnectInvokedOnce ==
    [][\A s \in Sessions : Connects(s) => ~connTried]_vars

\* C4, amended: at most one connection is constructed per process.  A
\* handshake that raises stores nothing, and the next call connects again;
\* once a handshake has returned a handle, connect is never invoked again,
\* the stored handle never changes and every call returns it.
C4_OneConnection ==
    /\ [](connOks <= 1)
    /\ [](\A s \in Sessions : handle[s] # NoConn => handle[s] = conn)
    /\ [][\A s \in Sessions : Connects(s) => conn = NoConn]_vars
    /\ [][conn # NoConn => conn' = conn]_vars

\* Two sessions, each inside a different accessor, hold the same handle
C4_Witness ==
    \E s, t \in Sessions :
        /\ s # t
        /\ handle[s] # NoConn
        /\ handle[s] = handle[t]
        /\ idx[s] # idx[t]

----------------------------------------------------------------------------
(* C5 *)

\* C5, as stated: a pass in which an exception was raised shows the banner,
\* the hint and none of the report widgets, whichever step raised.
C5_ErrorPageHasNoWidgets ==
    \A s \in Sessions :
        Count(page[s], "error") > 0 => page[s] = <<"header", "error", "info">>

\* C5, amended: an exception during a data fetch leaves the banner and the
\* hint and none of the report widgets.  An exception during rendering
\* leaves the widgets shown before the statement that raised, followed by
\* exactly one banner and one hint; nothing follows the banner, and the
\* footer is never shown.  A pass without exception shows neither.
C5_ErrorPage ==
    \A s \in Sessions :
        /\ failedOp[s] # NoOp =>
              /\ EndsWithBanner(page[s])
              /\ Count(page[s], "footer") = 0
              /\ IsPrefix(SubSeq(page[s], 1, Len(page[s]) - 2),
                          <<"header">> \o Widgets \o Expanders(AlertLimit))
        /\ failedOp[s] \notin {NoOp, "render"} =>
              page[s] = <<"header", "error", "info">>
        /\ failedOp[s] = NoOp =>
              Count(page[s], "error") = 0 /\ Count(page[s], "info") = 0

\* A pass raised inside the alert list: widgets and expanders are shown
\* above the banner
C5_Witness ==
    \E s \in Sessions :
        /\ failedOp[s] = "render"
        /\ Count(page[s], "expander") > 0
        /\ EndsWithBanner(page[s])

----------------------------------------------------------------------------
(* C6 *)

\* C6: a run of the script that has opened a connection and has ended has
\* issued one row-count query, printed the outcome and released the
\* connection.
C6_ScriptReleasesConnection ==
    (spc \in {"exited", "crashed"} /\ sconn # "none")
    => /\ sconn = "closed"
       /\ squeries = 1
       /\ Len(sout) = 2

----------------------------------------------------------------------------
(* C7 *)

\* C7: a step that changes the stored entry of one accessor leaves the
\* entries of the other three as they were, and whether a call is answered
\* from the store, at its first read as at its read under the lock, is
\* decided by the age of the accessor's own entry alone.
C7_IndependentClocks ==
    [][/\ \A a \in Accessors :
            cache'[a] # cache[a] =>
                \A b \in Accessors \ {a} : cache'[b] = cache[b]
       /\ \A s \in Sessions :
            (pc[s] \in {"call", "lock"} /\ (pc'[s] # pc[s] \/ idx'[s] # idx[s]))
            => (Returns(s) <=> WithinTTL(Cur(s)))]_vars

\* At one moment one accessor's entry is fresh and another's has expired
C7_Witness ==
    \E a, b \in Accessors : WithinTTL(a) /\ OlderThanTTL(b)

----------------------------------------------------------------------------
(* C8 *)

\* C8: no page shows more than 10 expanders and no alerts snapshot has more
\* than 10 rows, however many rows the warehouse holds; a pass that renders
\* the alert list to its end shows one expander per row of its snapshot,
\* and a pass that raises shows no more than that.
C8_AtMostTenAlerts ==
    /\ [](\A s \in Sessions :
            /\ Count(page[s], "expander") <= AlertLimit
            /\ alerts[s] <= AlertLimit)
    /\ [](cache["alerts"].rows <= AlertLimit)
    /\ [][\A s \in Sessions :
            (pc[s] = "render" /\ pc'[s] = "done") =>
                IF failedOp'[s] = NoOp
                THEN Count(page'[s], "expander") = alerts[s]
                ELSE Count(page'[s], "expander") <= alerts[s]]_vars

\* The warehouse holds more than 10 rows and a complete page shows 10
C8_Witness ==
    /\ upstream > AlertLimit
    /\ \E s \in Sessions :
        /\ Count(page[s], "expander") = AlertLimit
        /\ Count(page[s], "footer") = 1

----------------------------------------------------------------------------
(* C9 *)

\* C9: within a pass the accessors are called in order, each once; a call
\* runs its query at most once and the pass connects at most once; an
\* attempt that does not succeed ends the pass at once with the banner.
C9_NoRetry ==
    /\ [](\A s \in Sessions : tries[s] <= 1 /\ connTries[s] <= 1)
    /\ [][\A s \in Sessions :
            /\ idx'[s] # idx[s] =>
                  \/ idx'[s] = idx[s] + 1
                  \/ pc[s] \in {"idle", "done"} /\ idx'[s] = 1
            /\ Executes(s) =>
                  \/ Returns(s)
                  \/ /\ pc'[s] = "done"
                     /\ failedOp'[s] = Cur(s)
                     /\ EndsWithBanner(page'[s])
            /\ Connects(s) =>
                  \/ handle'[s] # NoConn /\ pc'[s] = "query"
                  \/ /\ pc'[s] = "done"
                     /\ failedOp'[s] = "conn"
                     /\ EndsWithBanner(page'[s])]_vars

\* A pass connected, ran a query that raised, and ended
C9_Witness ==
    \E s \in Sessions :
        /\ failedOp[s] \in Accessors
        /\ tries[s] = 1
        /\ connTries[s] = 1
        /\ pc[s] = "done"

----------------------------------------------------------------------------
(* C10 *)

\* C10: the step in which a handshake or a query raises changes no stored
\* entry and no stored handle, releases the locks and ends the pass where
\* it is, so that no later accessor is called in it; the failed accessor's
\* entry is then absent or expired, so its next call runs the query again.
C10_FailureStoresNothing ==
    /\ [][\A s \in Sessions :
            (failedOp'[s] # failedOp[s] /\ failedOp'[s] \notin {NoOp, "render"})
            => /\ cache' = cache
               /\ conn' = conn
               /\ failedOp'[s] \in {"conn", Cur(s)}
               /\ pc'[s] = "done"
               /\ idx'[s] = idx[s]
               /\ lock'[Cur(s)] = Free
               /\ connLock' = Free
               /\ ~WithinTTL(Cur(s))']_vars
    /\ [](\A s \in Sessions :
            failedOp[s] \notin {NoOp, "render"} =>
                /\ pc[s] = "done"
                /\ alerts[s] = NoRows
                /\ ret[s] = NoRet
                /\ idx[s] \in 1..Len(FetchOrder))

\* The third query of a pass raised: the entries of the first two stay
\* stored and nothing is stored for the third
C10_Witness ==
    \E s \in Sessions :
        /\ failedOp[s] = "trend"
        /\ cache["risk"].ts # NoTime
        /\ cache["alerts"].ts # NoTime
        /\ cache["trend"] = NoEntry
        /\ cache["category"] = NoEntry

====
